---- MODULE Spec2Model ----
(***************************************************************************)
(* The NIPSA propagation worker of h (h/api/nipsa/worker.py).              *)
(*                                                                         *)
(* A worker listens on the "nipsa_user_requests" topic, decodes each       *)
(* message into (user_id, action) and adds the NIPSA marker to, or removes *)
(* it from, every annotation of that user in the search index: it scans    *)
(* the index with a query, turns every hit into an update action and hands *)
(* the list of actions to one bulk call.                                   *)
(*                                                                         *)
(* worker.py is modelled line by line.  The collaborators it calls but     *)
(* that live in other modules of the repository (h.api.search.scan,        *)
(* h.api.search.bulk, h.api.nipsa.search, request.get_queue_reader) are    *)
(* modelled from their contracts in the specification.                     *)
(*                                                                         *)
(* Two pieces of the web application stand beside it, each with its own    *)
(* specification: the CSRF cookie subscriber of h/subscribers.py           *)
(* (SpecCsrf) and the debug_token view as its tests describe it            *)
(* (SpecDebug).  SpecRace runs two workers against one user's documents.   *)
(***************************************************************************)
EXTENDS Integers, Sequences, FiniteSets, TLC

\* ------------------------------------------------------------------ bounds
MaxDocs == 2
MaxMsgs == 2
MaxRuns == 3
MaxQueue == 1
MaxWorkers == 2

\* --------------------------------------------------------------- constants
Users == {"acct:alice", "acct:bob"}
DocIds == 1..MaxDocs
Workers == 1..MaxWorkers
NIPSA == "nipsa"
UNNIPSA == "unnipsa"
ValidActions == {NIPSA, UNNIPSA}

VARIABLES
    index,      \* the search index: document id -> [user_id, nipsa]
    queue,      \* messages the broker holds for the channel, oldest first
    delivered,  \* number of messages published so far
    nworkers,   \* number of worker processes running against the channel
    run,        \* per worker: where it is in worker()/handle_message()
    hist,       \* the last two finished handle_message calls
    acked,      \* ids of the messages acknowledged to the broker
    overlapped, \* has a call started while another worker's was under way?
    csrf,       \* the session, the browser and the request of a CSRF round
    dbg         \* the token service and the request of a debug_token call

web == <<csrf, dbg>>

vars == <<index, queue, delivered, nworkers, run, hist, acked, overlapped,
          web>>

\* ------------------------------------------------------- queue messages
\* A message body is text.  json |-> FALSE is a body that is not JSON;
\* otherwise the body is a JSON object with the given keys.
Body(json, keys, user_id, action) ==
    [json |-> json, keys |-> keys, user_id |-> user_id, action |-> action]

ValidBodies ==
    {Body(TRUE, {"user_id", "action"}, u, a) : u \in Users, a \in ValidActions}

MalformedBody == Body(FALSE, {}, "", "")
NoUserIdBody == Body(TRUE, {"action"}, "", NIPSA)
BadActionBody == Body(TRUE, {"user_id", "action"}, "acct:alice", "delete")

Bodies == ValidBodies \cup {MalformedBody, NoUserIdBody, BadActionBody}

\* json.loads(message.body): a dict, or ValueError for a body that is not JSON.
json_loads(body) ==
    IF body.json
    THEN [ok |-> TRUE, err |-> "", keys |-> body.keys,
          user_id |-> body.user_id, action |-> body.action]
    ELSE [ok |-> FALSE, err |-> "ValueError", keys |-> {},
          user_id |-> "", action |-> ""]

\* add_or_remove_nipsa(es_client=..., **dict): binding the dict's keys to the
\* parameters user_id and action; a missing key is a TypeError.
BindArgs(dict) ==
    IF {"user_id", "action"} \subseteq dict.keys THEN "" ELSE "TypeError"

\* ------------------------------------------------------- the two queries
\* h.api.nipsa.search: the annotations of user_id that carry the marker
\* (nipsad_annotations) and those that do not (not_nipsad_annotations).
nipsad_annotations(user_id) == [user_id |-> user_id, nipsa |-> TRUE]
not_nipsad_annotations(user_id) == [user_id |-> user_id, nipsa |-> FALSE]

NoQuery == [user_id |-> "", nipsa |-> FALSE]

\* Does document d of index idx match the query?
Matches(idx, d, query) ==
    /\ idx[d].user_id = query.user_id
    /\ idx[d].nipsa = query.nipsa

\* The documents a scan of idx with the query selects.
Hits(idx, query) == {d \in DOMAIN idx : Matches(idx, d, query)}

\* The query built without looking at the action.
QueryFor_SameQuery(user_id, action) == not_nipsad_annotations(user_id)

\* worker.py 36-39: the query add_or_remove_nipsa builds for the action.
QueryFor(user_id, action) ==
    IF action = NIPSA
    THEN not_nipsad_annotations(user_id)
    ELSE nipsad_annotations(user_id)

\* ------------------------------------------------------ update actions
SET_MARKER == "doc: not_in_public_site_areas = True"
REMOVE_MARKER == "script: ctx._source.remove(not_in_public_site_areas)"

\* An add action that names the document after the scanned one.
add_nipsa_action_WrongId(annotation) ==
    [_op_type |-> "update", _type |-> "annotation",
     _id |-> (annotation % MaxDocs) + 1, body |-> SET_MARKER]

\* An add action that carries the removal script.
add_nipsa_action_Removes(annotation) ==
    [_op_type |-> "update", _type |-> "annotation",
     _id |-> annotation, body |-> REMOVE_MARKER]

add_nipsa_action(annotation) ==
    [_op_type |-> "update", _type |-> "annotation",
     _id |-> annotation, body |-> SET_MARKER]

\* A remove action that carries the add action's doc.
remove_nipsa_action_Sets(annotation) ==
    [_op_type |-> "update", _type |-> "annotation",
     _id |-> annotation, body |-> SET_MARKER]

remove_nipsa_action(annotation) ==
    [_op_type |-> "update", _type |-> "annotation",
     _id |-> annotation, body |-> REMOVE_MARKER]

\* The two branches exchanged.
ActionFor_Swapped(action, annotation) ==
    IF action = NIPSA
    THEN remove_nipsa_action(annotation)
    ELSE add_nipsa_action(annotation)

\* The add action whatever the action asked for.
ActionFor_AlwaysAdd(action, annotation) == add_nipsa_action(annotation)

\* worker.py 43-46: the action for one scanned annotation.
ActionFor(action, annotation) ==
    IF action = NIPSA
    THEN add_nipsa_action(annotation)
    ELSE remove_nipsa_action(annotation)

\* The index's partial update: what one bulk item does to its document.
ApplyItem(idx, act) ==
    IF act.body = SET_MARKER
    THEN [idx EXCEPT ![act._id].nipsa = TRUE]
    ELSE [idx EXCEPT ![act._id].nipsa = FALSE]

\* ----------------------------------------------------------- run state
NoMsg == [id |-> 0, body |-> MalformedBody]

\* The locals of one handle_message call and the line it has reached:
\*   "init"         worker() not called yet
\*   "listening"    reader.start(block=True), waiting for a message
\*   "querying"     add_or_remove_nipsa at line 41, search.scan
\*   "translating"  lines 43-46, the comprehension consuming the scan
\*   "writing"      line 48, search.bulk
\*   "done"         add_or_remove_nipsa returned
\*   "raised"       an exception is propagating out of handle_message
\* matched are the documents the scan has yielded, nbulk the bulk requests
\* sent to the index, accepted whether the index took the batch, pos the
\* items of the batch it has worked through, failed the documents whose
\* item failed; before remembers the index as the call found it.
IdleRun(pc) ==
    [pc |-> pc, msg |-> NoMsg, user_id |-> "", action |-> "",
     query |-> NoQuery, cursor |-> 0, matched |-> <<>>, actions |-> <<>>,
     nbulk |-> 0, accepted |-> FALSE, pos |-> 0, failed |-> {}, err |-> "",
     before |-> <<>>]

NoCall == [user_id |-> "", action |-> "", outcome |-> "none",
           nmatched |-> 0, nfailed |-> 0]

Range(s) == {s[i] : i \in 1..Len(s)}

\* No CSRF round and no debug_token call under way.
NoRound == [phase |-> "off"]
NoDebug == [phase |-> "off"]

IndexStates == [DocIds -> [user_id : Users, nipsa : BOOLEAN]]

Init ==
    /\ index \in IndexStates
    /\ queue = <<>>
    /\ delivered = 0
    /\ nworkers = 1
    /\ run = [w \in Workers |-> IdleRun("init")]
    /\ hist = [last |-> NoCall, before |-> NoCall]
    /\ acked = {}
    /\ overlapped = FALSE
    /\ csrf = NoRound
    /\ dbg = NoDebug

\* ------------------------------------------------------------ the broker
\* A producer publishes one of the bodies on the topic, max messages in all.
Publish(bodies, max) ==
    /\ delivered < max
    /\ Len(queue) < MaxQueue
    /\ \E b \in bodies :
         queue' = Append(queue, [id |-> delivered + 1, body |-> b])
    /\ delivered' = delivered + 1
    /\ UNCHANGED <<index, nworkers, run, hist, acked, overlapped, web>>

\* ------------------------------------------------------------ the worker
\* worker.py 66-69: get the reader, connect handle_message, start it.
worker(w) ==
    /\ w <= nworkers
    /\ run[w].pc = "init"
    /\ run' = [run EXCEPT ![w].pc = "listening"]
    /\ UNCHANGED <<index, queue, delivered, nworkers, hist, acked, overlapped, web>>

\* The entry without the assertion: any other action takes the else
\* branches.
Enter_NoAssert(r, msg, user_id, action) ==
    [r EXCEPT !.pc = "querying", !.msg = msg, !.user_id = user_id,
              !.action = action, !.query = QueryFor(user_id, action),
              !.before = index]

\* worker.py 32-39: the entry of add_or_remove_nipsa, up to the scan.
Enter(r, msg, user_id, action) ==
    IF action \notin ValidActions
    THEN [r EXCEPT !.pc = "raised", !.msg = msg, !.err = "AssertionError"]
    ELSE [r EXCEPT !.pc = "querying", !.msg = msg, !.user_id = user_id,
                   !.action = action, !.query = QueryFor(user_id, action),
                   !.before = index]

\* Is a call of a worker other than w under way?
OtherActive(w) ==
    \E v \in Workers \ {w} :
        run[v].pc \in {"querying", "translating", "writing", "done", "raised"}

\* A handler that finishes (acknowledges) the message before it runs.
handle_message_AcksFirst(w) ==
    /\ w <= nworkers
    /\ run[w].pc = "listening"
    /\ queue # <<>>
    /\ LET msg == Head(queue)
           dict == json_loads(msg.body)
       IN  run' = [run EXCEPT ![w] =
                IF ~dict.ok
                THEN [@ EXCEPT !.pc = "raised", !.msg = msg, !.err = dict.err]
                ELSE IF BindArgs(dict) # ""
                THEN [@ EXCEPT !.pc = "raised", !.msg = msg,
                               !.err = BindArgs(dict)]
                ELSE Enter(@, msg, dict.user_id, dict.action)]
    /\ queue' = Tail(queue)
    /\ acked' = acked \cup {Head(queue).id}
    /\ overlapped' = (overlapped \/ OtherActive(w))
    /\ UNCHANGED <<index, delivered, nworkers, hist, web>>

\* A handler that starts the run in the background and returns: the next
\* message is taken while the run of the one before is still under way.
handle_message_Async(w) ==
    /\ w <= nworkers
    /\ run[w].pc # "init"
    /\ queue # <<>>
    /\ LET msg == Head(queue)
           dict == json_loads(msg.body)
           fresh == IdleRun("listening")
       IN  run' = [run EXCEPT ![w] =
                IF ~dict.ok
                THEN [fresh EXCEPT !.pc = "raised", !.msg = msg,
                                   !.err = dict.err]
                ELSE IF BindArgs(dict) # ""
                THEN [fresh EXCEPT !.pc = "raised", !.msg = msg,
                                   !.err = BindArgs(dict)]
                ELSE Enter(fresh, msg, dict.user_id, dict.action)]
    /\ queue' = Tail(queue)
    /\ overlapped' = (overlapped \/ OtherActive(w))
    /\ UNCHANGED <<index, delivered, nworkers, hist, acked, web>>

\* worker.py 60-64: the reader hands the oldest message to handle_message,
\* which decodes the body and calls add_or_remove_nipsa with its keys.
handle_message(w) ==
    /\ w <= nworkers
    /\ run[w].pc = "listening"
    /\ queue # <<>>
    /\ LET msg == Head(queue)
           dict == json_loads(msg.body)
       IN  run' = [run EXCEPT ![w] =
                IF ~dict.ok
                THEN [@ EXCEPT !.pc = "raised", !.msg = msg, !.err = dict.err]
                ELSE IF BindArgs(dict) # ""
                THEN [@ EXCEPT !.pc = "raised", !.msg = msg,
                               !.err = BindArgs(dict)]
                ELSE Enter(@, msg, dict.user_id, dict.action)]
    /\ queue' = Tail(queue)
    /\ overlapped' = (overlapped \/ OtherActive(w))
    /\ UNCHANGED <<index, delivered, nworkers, hist, acked, web>>

\* worker.py 41: search.scan opens the scan; a transport or query error
\* is a ScanFailure.
Scan(w) ==
    /\ w <= nworkers
    /\ run[w].pc = "querying"
    /\ \/ run' = [run EXCEPT ![w].pc = "translating"]
       \/ run' = [run EXCEPT ![w].pc = "raised", ![w].err = "ScanFailure"]
    /\ UNCHANGED <<index, queue, delivered, nworkers, hist, acked, overlapped, web>>

\* The documents the scan of worker w has still to yield: those after its
\* cursor that match its query now.
Remaining(w) == {d \in Hits(index, run[w].query) : d > run[w].cursor}

NextHit(w) == CHOOSE d \in Remaining(w) : \A e \in Remaining(w) : d <= e

\* A generator in place of the list: every annotation is updated in the
\* index as soon as the scan yields it.
Translate_Streaming(w) ==
    /\ w <= nworkers
    /\ run[w].pc = "translating"
    /\ IF Remaining(w) # {}
       THEN /\ run' = [run EXCEPT
                  ![w].cursor = NextHit(w),
                  ![w].matched = Append(@, NextHit(w)),
                  ![w].actions =
                      Append(@, ActionFor(run[w].action, NextHit(w)))]
            /\ index' = ApplyItem(index,
                                  ActionFor(run[w].action, NextHit(w)))
       ELSE /\ run' = [run EXCEPT ![w].pc = "writing"]
            /\ index' = index
    /\ UNCHANGED <<queue, delivered, nworkers, hist, acked, overlapped, web>>

\* worker.py 43-46: the list comprehension takes the next annotation from
\* the scan and appends its action; when the scan is exhausted the list is
\* complete and control reaches line 48.
Translate(w) ==
    /\ w <= nworkers
    /\ run[w].pc = "translating"
    /\ IF Remaining(w) # {}
       THEN \/ run' = [run EXCEPT
                  ![w].cursor = NextHit(w),
                  ![w].matched = Append(@, NextHit(w)),
                  ![w].actions =
                      Append(@, ActionFor(run[w].action, NextHit(w)))]
            \/ run' = [run EXCEPT ![w].pc = "raised",
                                   ![w].err = "ScanFailure"]
       ELSE run' = [run EXCEPT ![w].pc = "writing"]
    /\ UNCHANGED <<index, queue, delivered, nworkers, hist, acked, overlapped, web>>

\* A bulk that sends whatever list it is given.
bulk_sends_Always(actions) == TRUE

\* h.api.search.bulk: an empty list of actions is a no-op that sends
\* nothing to the index; any other list is sent as one bulk request.
bulk_sends(actions) == actions # <<>>

\* A bulk call in a retry loop: a failed submission is sent again.
Bulk_Retries(w) ==
    /\ w <= nworkers
    /\ run[w].pc = "writing"
    /\ ~run[w].accepted
    /\ run[w].nbulk < 2
    /\ IF ~bulk_sends(run[w].actions)
       THEN run' = [run EXCEPT ![w].pc = "done"]
       ELSE \/ run' = [run EXCEPT ![w].nbulk = @ + 1, ![w].accepted = TRUE]
            \/ run' = [run EXCEPT ![w].nbulk = @ + 1]
    /\ UNCHANGED <<index, queue, delivered, nworkers, hist, acked, overlapped,
                   web>>

\* worker.py 48: search.bulk(actions).  The bulk request either fails as a
\* whole (BulkSubmitFailure) or is accepted by the index.
Bulk(w) ==
    /\ w <= nworkers
    /\ run[w].pc = "writing"
    /\ run[w].nbulk = 0
    /\ IF ~bulk_sends(run[w].actions)
       THEN run' = [run EXCEPT ![w].pc = "done"]
       ELSE \/ run' = [run EXCEPT ![w].nbulk = 1, ![w].accepted = TRUE]
            \/ run' = [run EXCEPT ![w].nbulk = 1, ![w].pc = "raised",
                                   ![w].err = "BulkSubmitFailure"]
    /\ UNCHANGED <<index, queue, delivered, nworkers, hist, acked, overlapped, web>>

\* The index works through the accepted batch: each item succeeds or fails
\* on its own, and a failed item raises nothing.  After the last item
\* search.bulk returns and so does add_or_remove_nipsa.
BulkItem(w) ==
    /\ w <= nworkers
    /\ run[w].pc = "writing"
    /\ run[w].accepted
    /\ run[w].pos < Len(run[w].actions)
    /\ LET act == run[w].actions[run[w].pos + 1]
           pc == IF run[w].pos + 1 = Len(run[w].actions)
                 THEN "done" ELSE "writing"
       IN  \/ /\ index' = ApplyItem(index, act)
              /\ run' = [run EXCEPT ![w].pos = @ + 1, ![w].pc = pc]
           \/ /\ index' = index
              /\ run' = [run EXCEPT ![w].pos = @ + 1, ![w].pc = pc,
                                     ![w].failed = @ \cup {act._id}]
    /\ UNCHANGED <<queue, delivered, nworkers, hist, acked, overlapped, web>>

\* What is remembered of a finished handle_message call: the decoded
\* message, how the call ended ("done" or the exception), how many documents
\* its scan yielded and how many bulk items failed.
Summary(w, outcome) ==
    [user_id |-> run[w].user_id, action |-> run[w].action,
     outcome |-> outcome, nmatched |-> Len(run[w].matched),
     nfailed |-> Cardinality(run[w].failed)]

\* The last finished call becomes the one before it.
Record(h, e) == [last |-> e, before |-> h.last]

\* handle_message returns normally; the reader acknowledges the message and
\* goes on to the next one.
Return(w) ==
    /\ w <= nworkers
    /\ run[w].pc = "done"
    /\ hist' = Record(hist, Summary(w, "done"))
    /\ run' = [run EXCEPT ![w] = IdleRun("listening")]
    /\ acked' = acked \cup {run[w].msg.id}
    /\ UNCHANGED <<index, queue, delivered, nworkers, overlapped, web>>

\* A reader that stops consuming when its handler raises.
Raise_Stops(w) ==
    /\ w <= nworkers
    /\ run[w].pc = "raised"
    /\ hist' = Record(hist, Summary(w, run[w].err))
    /\ run' = [run EXCEPT ![w] = IdleRun("stopped")]
    /\ acked' = acked \cup {run[w].msg.id}
    /\ UNCHANGED <<index, queue, delivered, nworkers, overlapped, web>>

\* The exception leaves handle_message (nothing in worker.py catches it) and
\* reaches the reader, which logs it, acknowledges the message (it is not
\* retried) and goes on to the next one.
Raise(w) ==
    /\ w <= nworkers
    /\ run[w].pc = "raised"
    /\ hist' = Record(hist, Summary(w, run[w].err))
    /\ run' = [run EXCEPT ![w] = IdleRun("listening")]
    /\ acked' = acked \cup {run[w].msg.id}
    /\ UNCHANGED <<index, queue, delivered, nworkers, overlapped, web>>

Step(w) ==
    \/ worker(w)
    \/ handle_message(w)
    \/ Scan(w)
    \/ Translate(w)
    \/ Bulk(w)
    \/ BulkItem(w)
    \/ Return(w)
    \/ Raise(w)

Next ==
    \/ Publish(Bodies, MaxMsgs)
    \/ \E w \in Workers : Step(w)

Spec == Init /\ [][Next]_vars

\* One worker and a producer that publishes only well-formed messages about
\* one user, MaxRuns of them.
AliceBodies ==
    {Body(TRUE, {"user_id", "action"}, "acct:alice", a) : a \in ValidActions}

NextAlice ==
    \/ Publish(AliceBodies, MaxRuns)
    \/ \E w \in Workers : Step(w)

SpecAlice == Init /\ [][NextAlice]_vars

\* Two workers on the channel, all documents owned by one user, and a
\* producer that publishes well-formed messages about that user.
InitRace ==
    /\ index \in {idx \in IndexStates :
                     \A d \in DocIds : idx[d].user_id = "acct:alice"}
    /\ queue = <<>>
    /\ delivered = 0
    /\ nworkers = 2
    /\ run = [w \in Workers |-> IdleRun("init")]
    /\ hist = [last |-> NoCall, before |-> NoCall]
    /\ acked = {}
    /\ overlapped = FALSE
    /\ csrf = NoRound
    /\ dbg = NoDebug

NextRace ==
    \/ Publish(AliceBodies, MaxMsgs)
    \/ \E w \in Workers : Step(w)

SpecRace == InitRace /\ [][NextRace]_vars

\* The worker process keeps running: a step it can take is taken.  Nothing
\* obliges the producer to publish.
Fairness == \A w \in Workers : WF_vars(Step(w))

InitFair ==
    /\ Init
    /\ \A d \in DocIds : ~index[d].nipsa

FairSpec == InitFair /\ [][Next]_vars /\ Fairness

TypeOK ==
    /\ index \in IndexStates
    /\ delivered \in 0..MaxRuns
    /\ Len(queue) <= MaxQueue
    /\ \A w \in Workers : run[w].pc \in
          {"init", "listening", "querying", "translating", "writing",
           "done", "raised"}

\* ------------------------------------------ the CSRF cookie (subscribers.py)
\* The variables of the worker's part, which the web part leaves alone.
nipsa_vars == <<index, queue, delivered, nworkers, run, hist, acked,
                overlapped>>

MaxRounds == 3

None == "None"
XSRF == "XSRF-TOKEN"
CookieNames == {XSRF, "session"}
CsrfTokens == {"tok1", "tok2"}
\* What a client can hold or send as its XSRF-TOKEN cookie: nothing, a token
\* of the session, or a value that was never a token.
CookieValues == CsrfTokens \cup {"stale", None}

Cookies(xsrf, session) ==
    [c \in CookieNames |-> IF c = XSRF THEN xsrf ELSE session]

\* response.set_cookie(name, value)
set_cookie(response, name, value) ==
    [response EXCEPT !.cookies[name] = value]

\* The mutation of set_csrf_cookie that sends the cookie only to a client
\* that has none.
set_csrf_cookie_IfMissing(event) ==
    IF event.request.cookies[XSRF] = None
    THEN set_cookie(event.response, XSRF, event.request.session.csrf_token)
    ELSE event.response

\* set_csrf_cookie(event), the NewResponse subscriber: the response it
\* leaves behind.  session.get_csrf_token() always yields a token.
set_csrf_cookie(event) ==
    LET request == event.request
        response == event.response
        session == request.session
        token == session.csrf_token
    IN  IF request.cookies[XSRF] # token
        THEN set_cookie(response, XSRF, token)
        ELSE response

\* A browser and a session.  jar is the browser's XSRF-TOKEN cookie, token
\* the session's CSRF token; echoed tells whether the request under way
\* carries the jar's cookie, changed whether the session's token was
\* replaced while the request was handled, settled counts the rounds in
\* a row (up to two) that echoed the cookie and kept the token.
NoRequest == [cookies |-> Cookies(None, None)]
NoResponse == [cookies |-> Cookies(None, None)]

InitCsrf ==
    /\ index = [d \in DocIds |-> [user_id |-> "acct:alice", nipsa |-> FALSE]]
    /\ queue = <<>>
    /\ delivered = 0
    /\ nworkers = 1
    /\ run = [w \in Workers |-> IdleRun("init")]
    /\ hist = [last |-> NoCall, before |-> NoCall]
    /\ acked = {}
    /\ overlapped = FALSE
    /\ \E t \in CsrfTokens :
         csrf = [phase |-> "idle", token |-> t, jar |-> None,
                 request |-> NoRequest, response |-> NoResponse,
                 echoed |-> FALSE, changed |-> FALSE, settled |-> 0,
                 rounds |-> 0]
    /\ dbg = NoDebug

\* The browser sends a request, with the cookie of its jar or with another.
Request ==
    /\ csrf.phase = "idle"
    /\ csrf.rounds < MaxRounds
    /\ \E v \in CookieValues :
         csrf' = [csrf EXCEPT !.phase = "request",
                              !.request = [cookies |-> Cookies(v, "sid")],
                              !.response = NoResponse,
                              !.echoed = (v = csrf.jar),
                              !.changed = FALSE]
    /\ UNCHANGED <<nipsa_vars, dbg>>

\* The view handles the request and makes the response; the session may get
\* a new CSRF token on the way (a login, a logout, an expired session).
View ==
    /\ csrf.phase = "request"
    /\ \E t \in CsrfTokens, s \in {None, "sid"} :
         csrf' = [csrf EXCEPT !.phase = "responding",
                              !.token = t,
                              !.changed = (t # csrf.token),
                              !.response = [cookies |-> Cookies(None, s)]]
    /\ UNCHANGED <<nipsa_vars, dbg>>

\* The NewResponse event is fired and set_csrf_cookie is called with it.
NewResponse ==
    /\ csrf.phase = "responding"
    /\ LET event == [request |-> [cookies |-> csrf.request.cookies,
                                  session |-> [csrf_token |-> csrf.token]],
                     response |-> csrf.response]
       IN  csrf' = [csrf EXCEPT !.phase = "response",
                                !.response = set_csrf_cookie(event)]
    /\ UNCHANGED <<nipsa_vars, dbg>>

\* The browser gets the response and stores the cookie if one was set.
Receive ==
    /\ csrf.phase = "response"
    /\ csrf' = [csrf EXCEPT
                 !.phase = "idle",
                 !.jar = IF csrf.response.cookies[XSRF] # None
                         THEN csrf.response.cookies[XSRF] ELSE @,
                 !.settled = IF csrf.echoed /\ ~csrf.changed
                             THEN (IF @ < 2 THEN @ + 1 ELSE 2) ELSE 0,
                 !.rounds = @ + 1]
    /\ UNCHANGED <<nipsa_vars, dbg>>

NextCsrf == Request \/ View \/ NewResponse \/ Receive

SpecCsrf == InitCsrf /\ [][NextCsrf]_vars

\* ------------------------------------- debug_token (h.views.api_auth)
\* The view itself is not among the sources; it is modelled from its tests
\* (tests/h/views/api_auth_test.py, TestDebugToken).
MaxCalls == 2

BearerTokens == {"tokA", "tokB"}
\* What request.auth_token can be: None, the empty string or a token value.
AuthTokens == BearerTokens \cup {None, ""}

\* A row of the token service.  kind "none" is a value no token was issued
\* for; a developer token has no client and never expires.
NoToken == [kind |-> "none", userid |-> None, expired |-> FALSE]
OAuthToken(userid, expired) ==
    [kind |-> "oauth", userid |-> userid, expired |-> expired]
DeveloperToken(userid) ==
    [kind |-> "developer", userid |-> userid, expired |-> FALSE]

TokenRows ==
    {NoToken} \cup {OAuthToken(u, e) : u \in Users, e \in BOOLEAN}
              \cup {DeveloperToken(u) : u \in Users}

\* token_service.validate(value): the token, or None when there is no such
\* token or it has expired.
validate(svc, value) ==
    IF svc[value].kind # "none" /\ ~svc[value].expired
    THEN svc[value] ELSE NoToken

\* token_service.fetch(value): the token with that value, or None.
fetch(svc, value) == svc[value]

\* The debug data of a token.
NoData == [kind |-> "none"]
DebugData(token) ==
    IF token.kind = "oauth"
    THEN [kind |-> "oauth", userid |-> token.userid,
          client |-> [id |-> "client-1", name |-> "Example Client"],
          issued_at |-> "created", expires_at |-> "expires",
          expired |-> token.expired]
    ELSE [kind |-> "developer", userid |-> token.userid,
          issued_at |-> "created", expires_at |-> None, expired |-> FALSE]

OAuthTokenError(message, type) ==
    [raised |-> TRUE, type |-> type, message |-> message, data |-> NoData]
Returned(data) ==
    [raised |-> FALSE, type |-> "", message |-> "", data |-> data]
NoResult == [raised |-> FALSE, type |-> "", message |-> "", data |-> NoData]

\* The mutation of debug_token that fetches the token without validating it.
debug_token_NoValidate(request) ==
    LET svc == request.services.auth_token
    IN  IF request.auth_token \in {None, ""}
        THEN OAuthTokenError("Bearer token is missing", "missing_token")
        ELSE IF fetch(svc, request.auth_token) = NoToken
        THEN OAuthTokenError("Bearer token does not exist or is expired",
                             "missing_token")
        ELSE Returned(DebugData(fetch(svc, request.auth_token)))

\* views.debug_token(request): what the call ends in.
debug_token(request) ==
    LET svc == request.services.auth_token
    IN  IF request.auth_token \in {None, ""}
        THEN OAuthTokenError("Bearer token is missing", "missing_token")
        ELSE IF validate(svc, request.auth_token) = NoToken
        THEN OAuthTokenError("Bearer token does not exist or is expired",
                             "missing_token")
        ELSE Returned(DebugData(fetch(svc, request.auth_token)))

InitDebug ==
    /\ index = [d \in DocIds |-> [user_id |-> "acct:alice", nipsa |-> FALSE]]
    /\ queue = <<>>
    /\ delivered = 0
    /\ nworkers = 1
    /\ run = [w \in Workers |-> IdleRun("init")]
    /\ hist = [last |-> NoCall, before |-> NoCall]
    /\ acked = {}
    /\ overlapped = FALSE
    /\ csrf = NoRound
    /\ dbg = [phase |-> "idle", svc |-> [t \in BearerTokens |-> NoToken],
              auth_token |-> None, result |-> NoResult, calls |-> 0]

\* A token is issued under a value that has none.
Issue ==
    /\ dbg.phase = "idle"
    /\ \E t \in BearerTokens, row \in TokenRows :
         /\ dbg.svc[t] = NoToken
         /\ row # NoToken
         /\ ~row.expired
         /\ dbg' = [dbg EXCEPT !.svc[t] = row]
    /\ UNCHANGED <<nipsa_vars, csrf>>

\* The lifetime of an OAuth token ends.
Expire ==
    /\ dbg.phase = "idle"
    /\ \E t \in BearerTokens :
         /\ dbg.svc[t].kind = "oauth"
         /\ ~dbg.svc[t].expired
         /\ dbg' = [dbg EXCEPT !.svc[t].expired = TRUE]
    /\ UNCHANGED <<nipsa_vars, csrf>>

\* A request for the debug view arrives.
DebugRequest ==
    /\ dbg.phase \in {"idle", "answered"}
    /\ dbg.calls < MaxCalls
    /\ \E a \in AuthTokens :
         dbg' = [dbg EXCEPT !.phase = "called", !.auth_token = a,
                            !.result = NoResult]
    /\ UNCHANGED <<nipsa_vars, csrf>>

\* The view runs.
DebugToken ==
    /\ dbg.phase = "called"
    /\ LET request == [auth_token |-> dbg.auth_token,
                       services |-> [auth_token |-> dbg.svc]]
       IN  dbg' = [dbg EXCEPT
                    !.phase = "answered",
                    !.result = debug_token(request),
                    !.calls = @ + 1]
    /\ UNCHANGED <<nipsa_vars, csrf>>

\* The answer is sent and the token service is free to change again.
Answered ==
    /\ dbg.phase = "answered"
    /\ dbg' = [dbg EXCEPT !.phase = "idle"]
    /\ UNCHANGED <<nipsa_vars, csrf>>

NextDebug == Issue \/ Expire \/ DebugRequest \/ DebugToken \/ Answered

SpecDebug == InitDebug /\ [][NextDebug]_vars

\* ------------------------------------------------------------ properties
Running == 1..nworkers

\* The documents user u owns.
DocsOf(u) == {d \in DocIds : index[d].user_id = u}

\* Is the marker of document d what the action asks for?
Reflects(action, d) == index[d].nipsa = (action = NIPSA)

\* Was the call before the last / the last call a run for (u, a) that ended
\* normally with no failed bulk item?
CleanRun(e, u, a) ==
    /\ e.user_id = u
    /\ e.action = a
    /\ e.outcome = "done"
    /\ e.nfailed = 0

\* Has the scan of worker w's run been consumed to the end?
Scanned(w) == run[w].pc \in {"writing", "done"}

DecodeErrors == {"ValueError", "TypeError", "AssertionError"}
RunErrors == {"ScanFailure", "BulkSubmitFailure"}

\* C1 -- Idempotence: when a run for (U, I) has ended with every bulk item
\* succeeding and the next call is a run for the same (U, I), with one
\* worker and so no other writer, the second run's scan yields no document
\* and no update action is built.
C1_Idempotence ==
    \A w \in Running :
        (/\ run[w].pc \in {"translating", "writing", "done"}
         /\ CleanRun(hist.last, run[w].user_id, run[w].action))
        => (run[w].matched = <<>> /\ run[w].actions = <<>>)

C1_Witness ==
    \E w \in Running :
        /\ run[w].pc = "done"
        /\ CleanRun(hist.last, run[w].user_id, run[w].action)
        /\ hist.last.nmatched > 0

\* C2 -- No-op empty batch: a run whose scan yielded no document sends no
\* bulk request to the index, and every bulk request that is sent carries
\* at least one action.
C2_NoEmptyBatch ==
    \A w \in Running :
        /\ (Scanned(w) /\ run[w].matched = <<>>) => run[w].nbulk = 0
        /\ run[w].nbulk > 0 => run[w].actions # <<>>

C2_Witness ==
    \E w \in Running :
        /\ run[w].pc = "done"
        /\ run[w].matched = <<>>
        /\ run[w].nbulk = 0
        /\ DocsOf(run[w].user_id) = {}

\* C3 -- Decode robustness: no error escapes handle_message for a message
\* that is malformed, lacks user_id or names an unknown action.
C3_NoDecodeErrorEscapes ==
    \A w \in Running :
        run[w].pc = "raised" => run[w].err \notin DecodeErrors

\* C4 -- Scan fully before any write: the index changes only when a run
\* applies a bulk item, and a run applies its items when its scan has been
\* consumed into the action list: the list and the scanned documents no
\* longer change, there is one action per scanned document, and the
\* documents that change are among the scanned ones.
C4_ScanBeforeWrite ==
    [][/\ index' # index =>
            \E w \in Running : run'[w].pos = run[w].pos + 1
       /\ \A w \in Running :
            run'[w].pos = run[w].pos + 1 =>
                /\ run[w].pc = "writing"
                /\ run'[w].matched = run[w].matched
                /\ run'[w].actions = run[w].actions
                /\ Len(run[w].actions) = Len(run[w].matched)
                /\ Remaining(w) = {}
                /\ \A d \in DocIds :
                     index'[d] # index[d] => d \in Range(run[w].matched)
      ]_vars

C4_Witness ==
    \E w \in Running :
        /\ run[w].pc = "writing"
        /\ run[w].pos = 1
        /\ Len(run[w].matched) >= 2
        /\ index # run[w].before

\* Is message i waiting in the queue?
InQueue(i) == \E k \in 1..Len(queue) : queue[k].id = i

\* Has message i been published, taken from the queue and its
\* handle_message call finished?
Handled(i) ==
    /\ i <= delivered
    /\ ~InQueue(i)
    /\ \A w \in Workers : run[w].msg.id # i

\* Did one of the last two calls end with a scan or bulk-submit failure?
SomeRunFailed ==
    \/ hist.last.outcome \in RunErrors
    \/ hist.before.outcome \in RunErrors

\* C5 -- The listener keeps consuming: once a run has failed with a scan
\* or bulk-submit failure, the listener has not stopped: every message in
\* the queue is eventually handled.
C5_KeepsConsuming ==
    \A i \in 1..MaxMsgs : (SomeRunFailed /\ InQueue(i)) ~> Handled(i)

C5_Witness ==
    /\ hist.before.outcome \in RunErrors
    /\ hist.last.outcome # "none"
    /\ Handled(delivered)

\* C6 -- No scan or bulk-write error propagates past add_or_remove_nipsa
\* as an exception.
C6_NoRunErrorEscapes ==
    \A w \in Running :
        run[w].pc = "raised" => run[w].err \notin RunErrors

\* C7 -- Predicate exclusivity: in every index state, for every user U,
\* the documents the nipsa query selects and those the unnipsa query
\* selects are disjoint, and all of them are owned by U.
C7_Exclusive ==
    \A u \in Users :
        LET sup == Hits(index, QueryFor(u, NIPSA))
            unsup == Hits(index, QueryFor(u, UNNIPSA))
        IN  /\ sup \cap unsup = {}
            /\ \A d \in sup : index[d].user_id = u /\ ~index[d].nipsa
            /\ \A d \in unsup : index[d].user_id = u /\ index[d].nipsa

C7_Witness ==
    \E u \in Users : \E w \in Running :
        /\ Hits(index, QueryFor(u, NIPSA)) # {}
        /\ Hits(index, QueryFor(u, UNNIPSA)) # {}
        /\ run[w].user_id = u
        /\ run[w].pc = "writing"
        /\ run[w].pos > 0

\* C8 -- Partial failure isolation: once the batch is accepted, every item
\* worked through that did not fail is reflected in the index, whatever
\* happened to the other items; failed items raise nothing, and the run
\* ends done when the last item has been worked through.
C8_PartialFailure ==
    \A w \in Running :
        run[w].accepted =>
            /\ run[w].pc \in {"writing", "done"}
            /\ run[w].err = ""
            /\ run[w].pos = Len(run[w].actions) => run[w].pc = "done"
            /\ \A i \in 1..run[w].pos :
                 run[w].matched[i] \notin run[w].failed =>
                     Reflects(run[w].action, run[w].matched[i])

C8_Witness ==
    \E w \in Running :
        /\ run[w].pc = "done"
        /\ run[w].action = NIPSA
        /\ Len(run[w].actions) >= 2
        /\ Cardinality(run[w].failed) = 1
        /\ \E d \in Range(run[w].matched) \ run[w].failed : index[d].nipsa

\* C9 -- Flag/unflag round trip: when a nipsa run for U matched all of
\* U's documents and succeeded on all, and the next call was an unnipsa
\* run for U that succeeded on all, then that run matched all of them too
\* and the nipsa run that follows matches exactly U's documents again.
C9_RoundTrip ==
    \A w \in Running : \A u \in Users :
        (/\ CleanRun(hist.before, u, NIPSA)
         /\ hist.before.nmatched = Cardinality(DocsOf(u))
         /\ CleanRun(hist.last, u, UNNIPSA)
         /\ run[w].user_id = u
         /\ run[w].action = NIPSA
         /\ Scanned(w))
        => /\ hist.last.nmatched = Cardinality(DocsOf(u))
           /\ Range(run[w].matched) = DocsOf(u)

C9_Witness ==
    \E w \in Running : \E u \in Users :
        /\ CleanRun(hist.before, u, NIPSA)
        /\ hist.before.nmatched = Cardinality(DocsOf(u))
        /\ CleanRun(hist.last, u, UNNIPSA)
        /\ run[w].user_id = u
        /\ run[w].action = NIPSA
        /\ run[w].pc = "done"
        /\ Cardinality(DocsOf(u)) >= 2

\* The documents whose index entry differs from what worker w's run found.
Changed(w) == {d \in DocIds : index[d] # run[w].before[d]}

\* C10 -- Propagation postcondition: when a run for (U, action) has ended
\* with no failed bulk item, every document of U carries the marker if the
\* action was nipsa and none does if it was unnipsa, and the documents the
\* run changed are as many as its scan matched.

C10_Postcondition ==
    \A w \in Running :
        (run[w].pc = "done" /\ run[w].failed = {}) =>
            /\ \A d \in DocsOf(run[w].user_id) : Reflects(run[w].action, d)
            /\ Cardinality(Changed(w)) = Len(run[w].matched)

C10_Witness ==
    \E w \in Running :
        /\ run[w].pc = "done"
        /\ run[w].failed = {}
        /\ run[w].action = UNNIPSA
        /\ Len(run[w].matched) >= 2

\* Does the body decode to a call whose action is not a valid one?
InvalidIntent(body) ==
    /\ body.json
    /\ {"user_id", "action"} \subseteq body.keys
    /\ body.action \notin ValidActions

\* C11 -- Invalid intent is rejected before any work: a call of
\* add_or_remove_nipsa with an action outside {"nipsa", "unnipsa"} raises
\* AssertionError at once, with no query built, no document scanned and no
\* bulk request sent, and the index is the same until the call has ended.
C11_InvalidRejected ==
    [][\A w \in Running :
        /\ (/\ run[w].pc = "listening"
            /\ run'[w].pc # "listening"
            /\ InvalidIntent(Head(queue).body))
           => /\ run'[w].pc = "raised"
              /\ run'[w].err = "AssertionError"
              /\ run'[w].query = NoQuery
              /\ run'[w].matched = <<>>
              /\ run'[w].nbulk = 0
              /\ index' = index
        /\ InvalidIntent(run[w].msg.body)
           => /\ run'[w].pc \in {"raised", "listening"}
              /\ run'[w].matched = <<>>
              /\ run'[w].nbulk = 0
              /\ index' = index
      ]_vars

C11_Witness ==
    \E w \in Running :
        /\ InvalidIntent(run[w].msg.body)
        /\ run[w].pc = "raised"
        /\ run[w].err = "AssertionError"
        /\ \E d \in DocIds : index[d].user_id = run[w].msg.body.user_id

\* C12 -- Strictly sequential processing within one worker: a worker takes
\* up a message only while it is listening with no call under way, and the
\* message it is handling changes otherwise only when its call has ended
\* (returned or raised), so the steps of two runs never interleave.
C12_Sequential ==
    [][\A w \in Running :
        run'[w].msg.id # run[w].msg.id =>
            \/ /\ run[w].pc = "listening"
               /\ run[w].msg.id = 0
               /\ run'[w].msg = Head(queue)
            \/ /\ run[w].pc \in {"done", "raised"}
               /\ run'[w].pc = "listening"
               /\ run'[w].msg.id = 0
      ]_vars

C12_Witness ==
    \E w \in Running :
        /\ run[w].msg.id = 2
        /\ run[w].pc = "writing"
        /\ run[w].pos >= 1
        /\ hist.last.outcome = "done"
        /\ hist.last.nmatched >= 1

\* C13 -- Acknowledgement ordering: every acknowledged message has been
\* taken from the queue and its call has ended; no message is acknowledged
\* while it waits or while its scan or bulk write is under way.
C13_AckAfterRun ==
    \A i \in acked :
        /\ i \in 1..delivered
        /\ ~InQueue(i)
        /\ \A w \in Workers : run[w].msg.id # i

C13_Witness ==
    /\ acked = {1, 2}
    /\ hist.before.outcome = "BulkSubmitFailure"
    /\ hist.last.outcome = "done"
    /\ hist.last.nmatched >= 1

\* Has worker w entered add_or_remove_nipsa with a valid action?
InRun(w) == run[w].pc \in {"querying", "translating", "writing", "done"}

\* C14 -- Frame: during and after a run for user U the index holds the same
\* document ids with the same owners as when the run began, and every
\* document owned by another user is unchanged; only markers of U's
\* documents differ.
C14_Frame ==
    \A w \in Running :
        InRun(w) =>
            /\ DOMAIN index = DOMAIN run[w].before
            /\ \A d \in DOMAIN index :
                 /\ index[d].user_id = run[w].before[d].user_id
                 /\ run[w].before[d].user_id # run[w].user_id
                    => index[d] = run[w].before[d]

C14_Witness ==
    \E w \in Running :
        /\ run[w].pc = "done"
        /\ Changed(w) # {}
        /\ \E d \in DocIds :
             /\ index[d].user_id # run[w].user_id
             /\ ~Reflects(run[w].action, d)

\* C16 -- Action translation is one-to-one: the action list holds exactly
\* one update action per document the scan has yielded, in order, each with
\* that document's id, no document twice; every action sets the marker when
\* the action is nipsa and removes it when it is unnipsa.
C16_OneToOne ==
    \A w \in Running :
        /\ Len(run[w].actions) = Len(run[w].matched)
        /\ \A i \in 1..Len(run[w].actions) :
             /\ run[w].actions[i]._op_type = "update"
             /\ run[w].actions[i]._id = run[w].matched[i]
             /\ run[w].actions[i].body =
                    IF run[w].action = NIPSA THEN SET_MARKER ELSE REMOVE_MARKER
             /\ run[w].before[run[w].matched[i]].user_id = run[w].user_id
             /\ \A j \in 1..Len(run[w].matched) :
                    run[w].matched[j] = run[w].matched[i] => j = i

C16_Witness ==
    \E w \in Running :
        /\ run[w].pc = "writing"
        /\ run[w].accepted
        /\ run[w].action = UNNIPSA
        /\ Len(run[w].actions) >= 2

\* The state of the run state machine a worker is in.
RunState(r) ==
    CASE r.pc = "querying" -> "Querying"
      [] r.pc = "translating" -> "Translating"
      [] r.pc = "writing" -> "Writing"
      [] r.pc = "done" -> "Done"
      [] r.pc = "raised" -> "Failed"
      [] OTHER -> "Idle"

\* The path Idle -> Querying -> Translating -> Writing -> Done, and back to
\* Idle when the call has ended.
MainPath ==
    {<<"Idle", "Querying">>, <<"Querying", "Translating">>,
     <<"Translating", "Writing">>, <<"Writing", "Done">>,
     <<"Done", "Idle">>, <<"Failed", "Idle">>}

\* Does the step leave the handler before add_or_remove_nipsa is entered
\* (the body does not decode to a call)?
NotACall(r) == r.pc = "raised" /\ r.err \in {"ValueError", "TypeError"}

\* One scan, at most one bulk request, and nothing after Done or Failed
\* but the return to the listening loop.
SingleAttempt(w) ==
    /\ run'[w].nbulk <= 1
    /\ (run[w].pc = "querying" /\ run'[w] # run[w])
       => run'[w].pc # "querying"
    /\ (run[w].pc \in {"done", "raised"} /\ run'[w] # run[w])
       => (run'[w] = IdleRun("listening") /\ index' = index)

\* C17 (as stated) -- a run moves only along the main path and enters
\* Failed only from Querying or Writing; it scans once, submits at most one
\* bulk request and takes no step after Done or Failed.
C17_FailedOnlyFromQueryingOrWriting ==
    [][\A w \in Running :
        /\ (RunState(run'[w]) # RunState(run[w]) /\ ~NotACall(run'[w]))
           => <<RunState(run[w]), RunState(run'[w])>> \in
                 MainPath \cup {<<"Querying", "Failed">>,
                                <<"Writing", "Failed">>}
        /\ SingleAttempt(w)
      ]_vars

\* C17 (amended) -- a run moves only along the main path; it enters Failed
\* from Querying or Writing, and also from Idle (the action fails the
\* assertion before any scan) and from Translating (the scan, consumed
\* while the actions are built, fails); it scans once, submits at most one
\* bulk request and takes no step after Done or Failed.
C17_SingleAttemptMachine ==
    [][\A w \in Running :
        /\ (RunState(run'[w]) # RunState(run[w]) /\ ~NotACall(run'[w]))
           => \/ <<RunState(run[w]), RunState(run'[w])>> \in
                    MainPath \cup {<<"Querying", "Failed">>,
                                   <<"Writing", "Failed">>}
              \/ /\ RunState(run[w]) = "Idle"
                 /\ run'[w].pc = "raised"
                 /\ run'[w].err = "AssertionError"
              \/ /\ RunState(run[w]) = "Translating"
                 /\ run'[w].pc = "raised"
                 /\ run'[w].err = "ScanFailure"
        /\ SingleAttempt(w)
      ]_vars

C17_Witness ==
    \E w \in Running :
        /\ run[w].pc = "raised"
        /\ run[w].err = "ScanFailure"
        /\ Len(run[w].matched) >= 1
        /\ run[w].nbulk = 0

\* Is no call under way and no message waiting?
Quiet ==
    /\ queue = <<>>
    /\ \A w \in Workers : run[w].pc \in {"init", "listening"}

\* Do some of u's documents carry the marker and some not?
Mixed(u) ==
    \E d, e \in DocsOf(u) : index[d].nipsa /\ ~index[e].nipsa

\* C18 -- Same-user race across workers: with two workers, as long as no
\* call has started while another was under way, a run that ended with
\* every item succeeding leaves all the user's documents as its message
\* asked; a state in which they are neither all flagged nor all unflagged
\* after a nipsa and an unnipsa run that both succeeded therefore arises
\* only when the two calls overlapped, and it does arise.
C18_MixedOnlyByRace ==
    \A u \in Users : \A a \in ValidActions :
        (Quiet /\ CleanRun(hist.last, u, a) /\ ~overlapped)
        => /\ \A d \in DocsOf(u) : Reflects(a, d)
           /\ ~Mixed(u)

C18_Witness ==
    \E u \in Users :
        /\ Quiet
        /\ nworkers = 2
        /\ overlapped
        /\ \E a, b \in ValidActions :
             /\ a # b
             /\ CleanRun(hist.before, u, a)
             /\ CleanRun(hist.last, u, b)
        /\ hist.before.nmatched >= 1
        /\ hist.last.nmatched >= 1
        /\ Mixed(u)

\* C19 -- Last message wins under sequential processing: with a single
\* worker handling one message after another, once the last run for a user
\* has ended with every item succeeding, all of that user's documents are
\* as the last message asked, whatever the messages before it asked.
C19_LastWins ==
    \A u \in Users : \A a \in ValidActions :
        (nworkers = 1 /\ Quiet /\ CleanRun(hist.last, u, a))
        => \A d \in DocsOf(u) : index[d].nipsa = (a = NIPSA)

C19_Witness ==
    /\ nworkers = 1
    /\ Quiet
    /\ delivered >= 2
    /\ CleanRun(hist.before, "acct:alice", NIPSA)
    /\ hist.before.nmatched >= 1
    /\ CleanRun(hist.last, "acct:alice", UNNIPSA)
    /\ hist.last.nmatched >= 1
    /\ \A d \in DocsOf("acct:alice") : ~index[d].nipsa

\* C20 -- CSRF cookie synchronisation: on a NewResponse event
\* set_csrf_cookie sets the response's XSRF-TOKEN cookie to the session's
\* token exactly when the request's XSRF-TOKEN cookie is absent or differs
\* from the token, and otherwise leaves the response as it was; no other
\* cookie of the response changes.  Hence after a round in which the
\* browser echoed its cookie and the token stayed, the browser's cookie is
\* the token, and a further such round sets no cookie.
C20_CookieSync ==
    [][/\ (csrf.phase = "responding" /\ csrf'.phase = "response") =>
            /\ (csrf'.response # csrf.response)
               <=> (csrf.request.cookies[XSRF] # csrf.token)
            /\ csrf'.response # csrf.response
               => csrf'.response.cookies[XSRF] = csrf.token
            /\ \A c \in CookieNames \ {XSRF} :
                   csrf'.response.cookies[c] = csrf.response.cookies[c]
            /\ (csrf.settled >= 1 /\ csrf.echoed /\ ~csrf.changed)
               => csrf'.response = csrf.response
       /\ (csrf'.phase = "idle" /\ csrf'.settled >= 1) =>
            csrf'.jar = csrf'.token
      ]_vars

C20_Witness ==
    /\ csrf.phase = "response"
    /\ csrf.rounds >= 1
    /\ csrf.settled >= 1
    /\ csrf.echoed
    /\ ~csrf.changed
    /\ csrf.jar = csrf.token
    /\ csrf.request.cookies[XSRF] = csrf.token
    /\ csrf.response.cookies[XSRF] = None

\* Is the request's bearer token one the token service holds and that has
\* not expired?
Usable ==
    /\ dbg.auth_token \in BearerTokens
    /\ dbg.svc[dbg.auth_token].kind \in {"oauth", "developer"}
    /\ ~dbg.svc[dbg.auth_token].expired

\* C15 -- debug_token rejects every request without a usable bearer token:
\* when the request's auth token is absent, empty or does not validate,
\* the call raises an OAuthTokenError of type 'missing_token' and returns
\* no data; debug data, that of the request's token, is returned only for
\* a token that validates.
C15_DebugTokenRejects ==
    dbg.phase = "answered" =>
        /\ ~Usable => /\ dbg.result.raised
                      /\ dbg.result.type = "missing_token"
                      /\ dbg.result.data = NoData
        /\ Usable => /\ ~dbg.result.raised
                     /\ dbg.result.data # NoData
                     /\ dbg.result.data.userid
                          = dbg.svc[dbg.auth_token].userid

C15_Witness ==
    /\ dbg.phase = "answered"
    /\ dbg.auth_token \in BearerTokens
    /\ dbg.svc[dbg.auth_token].kind = "oauth"
    /\ dbg.svc[dbg.auth_token].expired
    /\ dbg.result.raised
    /\ dbg.result.type = "missing_token"
    /\ dbg.result.data = NoData

====
